---------------------------- MODULE Spec2Model ----------------------------
(***************************************************************************)
(* rust3d: the Scene of src/src/scene.rs (geometry store, material table,  *)
(* lazily built vertex/index buffers, draw), the context set-up of         *)
(* src/src/lib.rs and the program and event loop of src/src/main.rs.       *)
(*                                                                         *)
(* Conventions.                                                            *)
(*  - Option<T>: None is <<>>, Some(x) is <<x>>.                           *)
(*  - f32 values are written in tenths: -0.5 is -5, 1.0 is 10.             *)
(*  - A panic ends the process: status becomes "panicked" and no action    *)
(*    is enabled any more.                                                 *)
(*  - calls is the sequence of backend (glium) calls made by the most      *)
(*    recent operation, each with its arguments and whether it succeeded;  *)
(*    lastOp is the name of that operation, lastArg its argument and pre   *)
(*    the cached buffer slots at its start.                                *)
(***************************************************************************)
EXTENDS Integers, Sequences, FiniteSets, TLC

VARIABLES
    vertices,        \* Scene.vertices        scene.rs:29
    indices,         \* Scene.indices         scene.rs:30
    vertex_buffer,   \* Scene.vertex_buffer   scene.rs:31
    index_buffer,    \* Scene.index_buffer    scene.rs:32
    uniforms,        \* Scene.uniforms        scene.rs:33
    materials,       \* Scene.materials       scene.rs:34
    id_counter,      \* Scene.id_counter: u8  scene.rs:35
    display,         \* the glium::Display of init_context, None before it
    program,         \* the glium::Program of init_program, None before it
    status,          \* "running", "panicked" or "exited"
    panic_msg,       \* the message of the panic that ended the process
    lastOp,          \* the most recent operation
    lastArg,         \* the argument it was called with (an Option)
    pre,             \* the two cached slots as they were when it started
    calls,           \* the backend calls the most recent operation made
    assigned,        \* the keys add_material has inserted at so far
    overflow_checks, \* build profile: are integer overflow checks compiled in
    pc,              \* position of main (main.rs), "api" for a library client
    control_flow,    \* the event loop's ControlFlow
    ev,              \* the event the handler was last called with
    nEvents,         \* number of events delivered so far
    vnew_args,       \* the (x, y, z) a Vertex::new call is made with
    vnew_result      \* the Vertex it returned, None before the call

sceneVars == <<vertices, indices, vertex_buffer, index_buffer, uniforms,
               materials, id_counter>>
ctxVars   == <<display, program>>
procVars  == <<status, panic_msg>>
obsVars   == <<lastOp, lastArg, pre, calls, assigned>>
mainVars  == <<pc, control_flow, ev, nEvents>>
vnewVars  == <<vnew_args, vnew_result>>
vars      == <<vertices, indices, vertex_buffer, index_buffer, uniforms,
               materials, id_counter, display, program, status, panic_msg,
               lastOp, lastArg, pre, calls, assigned, overflow_checks, pc,
               control_flow, ev, nEvents, vnew_args, vnew_result>>

---------------------------------------------------------------------------
(* Option and the u8 width                                                 *)

None == <<>>

Some(x) == <<x>>

U8Max == 255

---------------------------------------------------------------------------
(* Bounds of the model                                                     *)

\* In Spec a client calls add_material at most MaxAdds times.
MaxAdds == 2

\* In SpecMain the event loop delivers at most MaxEvents events.
MaxEvents == 8

\* In SpecVertex the coordinates range over -MaxCoord .. MaxCoord tenths.
MaxCoord == 5

---------------------------------------------------------------------------
(* Vertex, Material                                                        *)

\* Vertex::new with the texture coordinate at the origin.
Vertex_new_uv_origin(x, y, z) ==
    [pos |-> <<x, y, z>>, uv |-> <<0, 0>>, material_id |-> 0]

\* Vertex::new(x, y, z)
Vertex_new(x, y, z) ==
    [pos |-> <<x, y, z>>, uv |-> <<0, 10>>, material_id |-> 0]

\* MaterialField::new(value)
MaterialField_new(value) == [value |-> Some(value), texture |-> None]

\* Material::new(diffuse, specularity)
Material_new(diffuse, specularity) ==
    [diffuse |-> diffuse, specularity |-> specularity]

---------------------------------------------------------------------------
(* Inputs                                                                  *)

\* The quad of main and of the doc example.
QuadVertices ==
    << Vertex_new(-5, -5, 0), Vertex_new(-5, 5, 0),
       Vertex_new(5, 5, 0),   Vertex_new(5, -5, 0) >>

QuadIndices == <<0, 1, 2, 0, 2, 3>>

\* uniform! { u_color: [1.0, 1.0, 1.0] }
UColorWhite == [u_color |-> <<10, 10, 10>>]

UColorRed == [u_color |-> <<10, 0, 0>>]

\* Vertex lists a client passes to set_vertices.
VertexLists == { <<>>, QuadVertices, << Vertex_new(0, 0, 0) >> }

\* Index lists a client passes to set_indices; <<0, 1, 7>> points outside
\* every vertex list above.
IndexLists == { <<>>, QuadIndices, <<0, 1, 7>> }

UniformBundles == { UColorWhite, UColorRed }

MatA == Material_new(MaterialField_new(<<10, 0, 0>>), MaterialField_new(5))

MatB == Material_new(MaterialField_new(<<0, 10, 0>>), MaterialField_new(1))

EmptyMap == [k \in {} |-> MatA]

\* Tables a client passes to set_materials.
MaterialMaps == { EmptyMap, (1 :> MatB), (2 :> MatB @@ 9 :> MatA) }

---------------------------------------------------------------------------
(* Process                                                                 *)

Running == status = "running"

\* A failure that is reported and survived.
PanicContinue(msg) ==
    /\ status' = status
    /\ panic_msg' = Some(msg)

\* panic!, unwrap() and expect() on an Err: the process ends with msg.
Panic(msg) ==
    /\ status' = "panicked"
    /\ panic_msg' = Some(msg)

\* A backend call, its arguments and whether the backend accepted it.
Call(name, args, ok) == [call |-> name, args |-> args, ok |-> ok]

\* The end of an operation op called with arg that made the calls cs and,
\* when p is Some, panicked with that message.
Finish(op, arg, cs, p) ==
    /\ lastOp' = op
    /\ lastArg' = arg
    /\ pre' = [vb |-> vertex_buffer, ib |-> index_buffer]
    /\ calls' = cs
    /\ IF p = None THEN UNCHANGED procVars ELSE Panic(p[1])
    /\ UNCHANGED vnewVars

---------------------------------------------------------------------------
(* Scene::new                                                              *)

Scene_new ==
    /\ vertices = <<>>
    /\ indices = <<>>
    /\ materials = EmptyMap
    /\ id_counter = 0
    /\ vertex_buffer = None
    /\ index_buffer = None
    /\ uniforms = None

---------------------------------------------------------------------------
(* Geometry store, material table, uniforms  (scene.rs:51-74)              *)

\* set_vertices leaving the cached buffers in place.
set_vertices_keeps_buffers(list) ==
    /\ Running
    /\ vertices' = list
    /\ UNCHANGED <<indices, vertex_buffer, index_buffer, uniforms, materials,
                   id_counter, ctxVars, assigned, overflow_checks>>
    /\ Finish("set_vertices", Some(list), <<>>, None)

\* Scene::set_vertices
set_vertices(list) ==
    /\ Running
    /\ vertices' = list
    /\ vertex_buffer' = None
    /\ index_buffer' = None
    /\ UNCHANGED <<indices, uniforms, materials, id_counter, ctxVars,
                   assigned, overflow_checks>>
    /\ Finish("set_vertices", Some(list), <<>>, None)

\* set_indices leaving the cached buffers in place.
set_indices_keeps_buffers(list) ==
    /\ Running
    /\ indices' = list
    /\ UNCHANGED <<vertices, vertex_buffer, index_buffer, uniforms, materials,
                   id_counter, ctxVars, assigned, overflow_checks>>
    /\ Finish("set_indices", Some(list), <<>>, None)

\* set_indices forgetting the vertex buffer.
set_indices_keeps_vertex_buffer(list) ==
    /\ Running
    /\ indices' = list
    /\ index_buffer' = None
    /\ UNCHANGED <<vertices, vertex_buffer, uniforms, materials, id_counter,
                   ctxVars, assigned, overflow_checks>>
    /\ Finish("set_indices", Some(list), <<>>, None)

\* Scene::set_indices
set_indices(list) ==
    /\ Running
    /\ indices' = list
    /\ vertex_buffer' = None
    /\ index_buffer' = None
    /\ UNCHANGED <<vertices, uniforms, materials, id_counter, ctxVars,
                   assigned, overflow_checks>>
    /\ Finish("set_indices", Some(list), <<>>, None)

\* set_materials starting the counter again.
set_materials_resets_counter(mapping) ==
    /\ Running
    /\ materials' = mapping
    /\ id_counter' = 0
    /\ UNCHANGED <<vertices, indices, vertex_buffer, index_buffer, uniforms,
                   ctxVars, assigned, overflow_checks>>
    /\ Finish("set_materials", Some(mapping), <<>>, None)

\* Scene::set_materials
set_materials(mapping) ==
    /\ Running
    /\ materials' = mapping
    /\ UNCHANGED <<vertices, indices, vertex_buffer, index_buffer, uniforms,
                   id_counter, ctxVars, assigned, overflow_checks>>
    /\ Finish("set_materials", Some(mapping), <<>>, None)

\* An insertion that keeps the value of a key already present.
InsertIfAbsent(map, key, value) ==
    [k \in DOMAIN map \cup {key} |-> IF k \in DOMAIN map THEN map[k] ELSE value]

\* HashMap::insert(key, value)
Insert(map, key, value) ==
    [k \in DOMAIN map \cup {key} |-> IF k = key THEN value ELSE map[k]]

\* Scene::add_material.  self.id_counter += 1 on a u8: at 255 the addition
\* overflows, which panics where overflow checks are compiled in (debug
\* profile) and wraps to 0 where they are not (release profile).
add_material(material) ==
    /\ Running
    /\ IF id_counter + 1 > U8Max /\ overflow_checks
       THEN /\ UNCHANGED <<materials, id_counter, assigned>>
            /\ Finish("add_material", Some(material), <<>>,
                   Some("attempt to add with overflow"))
       ELSE /\ id_counter' = (id_counter + 1) % (U8Max + 1)
            /\ materials' = Insert(materials, id_counter', material)
            /\ assigned' = assigned \cup {id_counter'}
            /\ Finish("add_material", Some(material), <<>>, None)
    /\ UNCHANGED <<vertices, indices, vertex_buffer, index_buffer, uniforms,
                   ctxVars, overflow_checks>>

\* set_uniforms keeping a bundle that is already there.
set_uniforms_once(bundle) ==
    /\ Running
    /\ uniforms' = IF uniforms = None THEN Some(bundle) ELSE uniforms
    /\ UNCHANGED <<vertices, indices, vertex_buffer, index_buffer, materials,
                   id_counter, ctxVars, assigned, overflow_checks>>
    /\ Finish("set_uniforms", Some(bundle), <<>>, None)

\* set_uniforms invalidating the cache as the geometry setters do.
set_uniforms_invalidates(bundle) ==
    /\ Running
    /\ uniforms' = Some(bundle)
    /\ vertex_buffer' = None
    /\ index_buffer' = None
    /\ UNCHANGED <<vertices, indices, materials, id_counter, ctxVars,
                   assigned, overflow_checks>>
    /\ Finish("set_uniforms", Some(bundle), <<>>, None)

\* Scene::set_uniforms
set_uniforms(bundle) ==
    /\ Running
    /\ uniforms' = Some(bundle)
    /\ UNCHANGED <<vertices, indices, vertex_buffer, index_buffer, materials,
                   id_counter, ctxVars, assigned, overflow_checks>>
    /\ Finish("set_uniforms", Some(bundle), <<>>, None)

---------------------------------------------------------------------------
(* Buffer builders and the lazy cache  (scene.rs:76-103)                   *)
(* Each returns [buf, calls, panic]: the buffer (an Option), the backend   *)
(* calls made and the panic raised, if any.  ok is the backend's answer.   *)

\* Scene::get_vertex_buffer
get_vertex_buffer(ok) ==
    [ buf   |-> IF ok THEN Some([data |-> vertices]) ELSE None,
      calls |-> << Call("VertexBuffer::new", <<vertices>>, ok) >>,
      panic |-> IF ok THEN None ELSE Some("unwrap: VertexBuffer::new") ]

\* get_index_buffer without the test for an empty index list.
get_index_buffer_unchecked(ok) ==
    [ buf   |-> IF ok THEN Some([primitive |-> "TrianglesList",
                                 data |-> indices])
                ELSE None,
      calls |-> << Call("IndexBuffer::new", <<"TrianglesList", indices>>, ok) >>,
      panic |-> IF ok THEN None ELSE Some("Error generating the index buffer") ]

\* Scene::get_index_buffer
get_index_buffer(ok) ==
    IF Len(indices) > 0
    THEN [ buf   |-> IF ok THEN Some([primitive |-> "TrianglesList",
                                      data |-> indices])
                     ELSE None,
           calls |-> << Call("IndexBuffer::new",
                             <<"TrianglesList", indices>>, ok) >>,
           panic |-> IF ok THEN None
                     ELSE Some("Error generating the index buffer") ]
    ELSE [ buf |-> None, calls |-> <<>>, panic |-> Some("Missing indices") ]

\* update_vertex_buffer without the is_none test.
update_vertex_buffer_always(ok) == get_vertex_buffer(ok)

\* Scene::update_vertex_buffer
update_vertex_buffer(ok) ==
    IF vertex_buffer = None
    THEN get_vertex_buffer(ok)
    ELSE [ buf |-> vertex_buffer, calls |-> <<>>, panic |-> None ]

\* Scene::update_index_buffer
update_index_buffer(ok) ==
    IF index_buffer = None
    THEN get_index_buffer(ok)
    ELSE [ buf |-> index_buffer, calls |-> <<>>, panic |-> None ]

---------------------------------------------------------------------------
(* Scene::draw  (scene.rs:105-135)                                         *)

ClearColorBlack == <<0, 0, 0, 10>>

\* target.clear_color(0.0, 0.0, 1.0, 1.0)
ClearColor == <<0, 0, 10, 10>>

\* The frame drawn with glium's EmptyUniforms when no bundle was set.
draw_frame_default_uniforms(vb, ib, drawOK, finOK) ==
    IF vb = None
    THEN [ calls |-> <<>>,
           panic |-> Some("Impossible to find any vertex buffer for this scene") ]
    ELSE IF ib = None
    THEN [ calls |-> <<>>,
           panic |-> Some("Impossible to find any index buffer for this scene") ]
    ELSE [ calls |->
              << Call("Display::draw", <<>>, TRUE),
                 Call("Surface::clear_color", ClearColor, TRUE),
                 Call("Surface::draw",
                      <<vb[1], ib[1], program[1],
                        IF uniforms = None THEN "EmptyUniforms" ELSE uniforms[1],
                        "Default">>,
                      drawOK) >>
              \o (IF drawOK THEN << Call("Frame::finish", <<>>, finOK) >>
                            ELSE <<>>),
           panic |-> IF ~drawOK THEN Some("unwrap: Surface::draw")
                     ELSE IF ~finOK THEN Some("unwrap: Frame::finish")
                     ELSE None ]

\* scene.rs:108-134: the frame, given the two cached slots vb and ib.
draw_frame(vb, ib, drawOK, finOK) ==
    IF vb = None
    THEN [ calls |-> <<>>,
           panic |-> Some("Impossible to find any vertex buffer for this scene") ]
    ELSE IF ib = None
    THEN [ calls |-> <<>>,
           panic |-> Some("Impossible to find any index buffer for this scene") ]
    ELSE IF uniforms = None
    THEN [ calls |-> <<>>,
           panic |-> Some("Cannot draw before specifing uniforms") ]
    ELSE [ calls |->
              << Call("Display::draw", <<>>, TRUE),
                 Call("Surface::clear_color", ClearColor, TRUE),
                 Call("Surface::draw",
                      <<vb[1], ib[1], program[1], uniforms[1], "Default">>,
                      drawOK) >>
              \o (IF drawOK THEN << Call("Frame::finish", <<>>, finOK) >>
                            ELSE <<>>),
           panic |-> IF ~drawOK THEN Some("unwrap: Surface::draw")
                     ELSE IF ~finOK THEN Some("unwrap: Frame::finish")
                     ELSE None ]

\* draw taking the bundle out of the scene (Option::take) when it draws.
draw_takes_uniforms(vbOK, ibOK, drawOK, finOK) ==
    /\ Running
    /\ display # None
    /\ program # None
    /\ LET vb == update_vertex_buffer(vbOK)
           ib == IF vb.panic = None
                 THEN update_index_buffer(ibOK)
                 ELSE [ buf |-> index_buffer, calls |-> <<>>, panic |-> vb.panic ]
           fr == IF ib.panic = None
                 THEN draw_frame(vb.buf, ib.buf, drawOK, finOK)
                 ELSE [ calls |-> <<>>, panic |-> ib.panic ]
       IN  /\ vertex_buffer' = vb.buf
           /\ index_buffer' = ib.buf
           /\ uniforms' = IF ib.panic = None THEN None ELSE uniforms
           /\ Finish("draw", None, vb.calls \o ib.calls \o fr.calls, fr.panic)
    /\ UNCHANGED <<vertices, indices, materials, id_counter,
                   ctxVars, assigned, overflow_checks>>

\* draw looking at the uniforms before it ensures the buffers.
draw_uniforms_first(vbOK, ibOK, drawOK, finOK) ==
    /\ Running
    /\ display # None
    /\ program # None
    /\ LET un == IF uniforms = None
                 THEN Some("Cannot draw before specifing uniforms")
                 ELSE None
           vb == IF un = None
                 THEN update_vertex_buffer(vbOK)
                 ELSE [ buf |-> vertex_buffer, calls |-> <<>>, panic |-> un ]
           ib == IF vb.panic = None
                 THEN update_index_buffer(ibOK)
                 ELSE [ buf |-> index_buffer, calls |-> <<>>, panic |-> vb.panic ]
           fr == IF ib.panic = None
                 THEN draw_frame(vb.buf, ib.buf, drawOK, finOK)
                 ELSE [ calls |-> <<>>, panic |-> ib.panic ]
       IN  /\ vertex_buffer' = vb.buf
           /\ index_buffer' = ib.buf
           /\ Finish("draw", None, vb.calls \o ib.calls \o fr.calls, fr.panic)
    /\ UNCHANGED <<vertices, indices, uniforms, materials, id_counter,
                   ctxVars, assigned, overflow_checks>>

\* Scene::draw.  vbOK, ibOK, drawOK, finOK: whether the backend accepts the
\* vertex buffer, the index buffer, the draw call and the frame's finish.
draw(vbOK, ibOK, drawOK, finOK) ==
    /\ Running
    /\ display # None
    /\ program # None
    /\ LET vb == update_vertex_buffer(vbOK)
           ib == IF vb.panic = None
                 THEN update_index_buffer(ibOK)
                 ELSE [ buf |-> index_buffer, calls |-> <<>>, panic |-> vb.panic ]
           fr == IF ib.panic = None
                 THEN draw_frame(vb.buf, ib.buf, drawOK, finOK)
                 ELSE [ calls |-> <<>>, panic |-> ib.panic ]
       IN  /\ vertex_buffer' = vb.buf
           /\ index_buffer' = ib.buf
           /\ Finish("draw", None, vb.calls \o ib.calls \o fr.calls, fr.panic)
    /\ UNCHANGED <<vertices, indices, uniforms, materials, id_counter,
                   ctxVars, assigned, overflow_checks>>

\* get_vertex_buffer storing what it built in the cached slot.
call_get_vertex_buffer_caches(ok) ==
    /\ Running
    /\ display # None
    /\ LET r == get_vertex_buffer(ok)
       IN  /\ vertex_buffer' = IF ok THEN r.buf ELSE vertex_buffer
           /\ Finish("get_vertex_buffer", None, r.calls, r.panic)
    /\ UNCHANGED <<vertices, indices, index_buffer, uniforms, materials,
                   id_counter, ctxVars, assigned, overflow_checks>>

\* A client's call of the public get_vertex_buffer: the buffer is returned
\* to the caller, the scene is not changed.
call_get_vertex_buffer(ok) ==
    /\ Running
    /\ display # None
    /\ LET r == get_vertex_buffer(ok)
       IN  Finish("get_vertex_buffer", None, r.calls, r.panic)
    /\ UNCHANGED <<sceneVars, ctxVars, assigned, overflow_checks>>

\* A client's call of the public get_index_buffer.
call_get_index_buffer(ok) ==
    /\ Running
    /\ display # None
    /\ LET r == get_index_buffer(ok)
       IN  Finish("get_index_buffer", None, r.calls, r.panic)
    /\ UNCHANGED <<sceneVars, ctxVars, assigned, overflow_checks>>

---------------------------------------------------------------------------
(* Context  (lib.rs)                                                       *)

\* opengl::init_context
init_context(ok) ==
    /\ Running
    /\ display = None
    /\ display' = IF ok THEN Some("display") ELSE None
    /\ Finish("init_context", None, << Call("Display::new", <<>>, ok) >>,
              IF ok THEN None ELSE Some("unwrap: Display::new"))
    /\ UNCHANGED <<sceneVars, program, assigned, overflow_checks>>

\* opengl::init_program
init_program(ok) ==
    /\ Running
    /\ display # None
    /\ program = None
    /\ program' = IF ok THEN Some("program") ELSE None
    /\ Finish("init_program", None,
              << Call("Program::from_source",
                      <<"vertex.shader", "fragment.shader">>, ok) >>,
              IF ok THEN None ELSE Some("unwrap: Program::from_source"))
    /\ UNCHANGED <<sceneVars, display, assigned, overflow_checks>>

---------------------------------------------------------------------------
(* Spec: a client of the library.  After Scene::new it calls the public    *)
(* operations in any order, with any of the inputs above; draw and the     *)
(* builders need the display (and draw the program) of lib.rs.             *)

Init ==
    /\ Scene_new
    /\ display = None
    /\ program = None
    /\ status = "running"
    /\ panic_msg = None
    /\ lastOp = "new"
    /\ lastArg = None
    /\ pre = [vb |-> None, ib |-> None]
    /\ calls = <<>>
    /\ assigned = {}
    /\ overflow_checks \in BOOLEAN
    /\ pc = "api"
    /\ control_flow = "Wait"
    /\ ev = None
    /\ nEvents = 0
    /\ vnew_args = <<0, 0, 0>>
    /\ vnew_result = None

Next ==
    \/ \E ok \in BOOLEAN : init_context(ok) /\ UNCHANGED mainVars
    \/ \E ok \in BOOLEAN : init_program(ok) /\ UNCHANGED mainVars
    \/ \E l \in VertexLists : set_vertices(l) /\ UNCHANGED mainVars
    \/ \E l \in IndexLists : set_indices(l) /\ UNCHANGED mainVars
    \/ \E m \in MaterialMaps : set_materials(m) /\ UNCHANGED mainVars
    \/ \E m \in {MatA, MatB} :
          id_counter < MaxAdds /\ add_material(m) /\ UNCHANGED mainVars
    \/ \E u \in UniformBundles : set_uniforms(u) /\ UNCHANGED mainVars
    \/ \E ok \in BOOLEAN : call_get_vertex_buffer(ok) /\ UNCHANGED mainVars
    \/ \E ok \in BOOLEAN : call_get_index_buffer(ok) /\ UNCHANGED mainVars
    \/ \E vbOK, ibOK, drawOK, finOK \in BOOLEAN :
          draw(vbOK, ibOK, drawOK, finOK) /\ UNCHANGED mainVars

Spec == Init /\ [][Next]_vars

---------------------------------------------------------------------------
(* SpecMat: the material table alone, with the counter's full u8 range.    *)

MatNext ==
    \/ add_material(MatA) /\ UNCHANGED mainVars
    \/ \E m \in MaterialMaps : set_materials(m) /\ UNCHANGED mainVars

SpecMat == Init /\ [][MatNext]_vars

---------------------------------------------------------------------------
(* SpecMain: fn main  (main.rs:10-56)                                      *)

\* The events the loop hands to the closure: a window's close request, any
\* other window event, MainEventsCleared, any other event.
Events == {"CloseRequested", "WindowOther", "MainEventsCleared", "Other"}

\* main.rs:34-54: the ControlFlow the closure leaves for event e.
handler_control_flow(e) ==
    IF e = "CloseRequested" THEN "Exit" ELSE "Wait"

\* The closure drawing in its catch-all arm too.
handler_draws_in_other_arm(e) == e \in {"MainEventsCleared", "Other"}

\* main.rs:37-54: does the closure call scene.draw for event e.
handler_draws(e) == e = "MainEventsCleared"

InitMain ==
    /\ Scene_new
    /\ display = None
    /\ program = None
    /\ status = "running"
    /\ panic_msg = None
    /\ lastOp = "new"
    /\ lastArg = None
    /\ pre = [vb |-> None, ib |-> None]
    /\ calls = <<>>
    /\ assigned = {}
    /\ overflow_checks \in BOOLEAN
    /\ pc = "init_context"
    /\ control_flow = "Wait"
    /\ ev = None
    /\ nEvents = 0
    /\ vnew_args = <<0, 0, 0>>
    /\ vnew_result = None

\* main.rs:12
main_init_context ==
    /\ pc = "init_context"
    /\ \E ok \in BOOLEAN : init_context(ok)
    /\ pc' = "init_program"
    /\ UNCHANGED <<control_flow, ev, nEvents>>

\* main.rs:13
main_init_program ==
    /\ pc = "init_program"
    /\ \E ok \in BOOLEAN : init_program(ok)
    /\ pc' = "set_vertices"
    /\ UNCHANGED <<control_flow, ev, nEvents>>

\* main.rs:18-23
main_set_vertices ==
    /\ pc = "set_vertices"
    /\ set_vertices(QuadVertices)
    /\ pc' = "set_indices"
    /\ UNCHANGED <<control_flow, ev, nEvents>>

\* main.rs:24
main_set_indices ==
    /\ pc = "set_indices"
    /\ set_indices(QuadIndices)
    /\ pc' = "set_uniforms"
    /\ UNCHANGED <<control_flow, ev, nEvents>>

\* main.rs:25-27
main_set_uniforms ==
    /\ pc = "set_uniforms"
    /\ set_uniforms(UColorWhite)
    /\ pc' = "event_loop"
    /\ UNCHANGED <<control_flow, ev, nEvents>>

\* main.rs:30-55: the loop calls the closure with event e.  Once the
\* closure has asked for Exit the loop keeps that directive whatever the
\* closure writes later, and it may still hand the closure the remaining
\* events of the iteration before it stops.
run_closure(e) ==
    /\ pc = "event_loop"
    /\ nEvents < MaxEvents
    /\ IF handler_draws(e)
       THEN \E vbOK, ibOK, drawOK, finOK \in BOOLEAN :
               draw(vbOK, ibOK, drawOK, finOK)
       ELSE /\ Running
            /\ Finish("event", None, <<>>, None)
            /\ UNCHANGED <<sceneVars, ctxVars, assigned, overflow_checks>>
    /\ ev' = Some(e)
    /\ nEvents' = nEvents + 1
    /\ control_flow' = IF control_flow = "Exit" THEN "Exit"
                       ELSE handler_control_flow(e)
    /\ pc' = pc

\* The loop stops after an Exit directive: the closure is called a last
\* time with LoopDestroyed (an event of its `_ => ()` arm) and the process
\* exits.
loop_destroyed ==
    /\ pc = "event_loop"
    /\ Running
    /\ control_flow = "Exit"
    /\ ev' = Some("LoopDestroyed")
    /\ nEvents' = nEvents + 1
    /\ lastOp' = "event"
    /\ lastArg' = None
    /\ pre' = [vb |-> vertex_buffer, ib |-> index_buffer]
    /\ calls' = <<>>
    /\ status' = "exited"
    /\ pc' = "done"
    /\ UNCHANGED <<sceneVars, ctxVars, panic_msg, assigned, overflow_checks,
                   control_flow, vnewVars>>

MainNext ==
    \/ main_init_context
    \/ main_init_program
    \/ main_set_vertices
    \/ main_set_indices
    \/ main_set_uniforms
    \/ \E e \in Events : run_closure(e)
    \/ loop_destroyed

SpecMain == InitMain /\ [][MainNext]_vars

---------------------------------------------------------------------------
(* SpecVertex: Vertex::new on every (x, y, z) of a grid  (scene.rs:191-198)*)

Coords == (0 - MaxCoord) .. MaxCoord

InitVertex ==
    /\ Scene_new
    /\ display = None
    /\ program = None
    /\ status = "running"
    /\ panic_msg = None
    /\ lastOp = "new"
    /\ lastArg = None
    /\ pre = [vb |-> None, ib |-> None]
    /\ calls = <<>>
    /\ assigned = {}
    /\ overflow_checks \in BOOLEAN
    /\ pc = "api"
    /\ control_flow = "Wait"
    /\ ev = None
    /\ nEvents = 0
    /\ vnew_args \in Coords \X Coords \X Coords
    /\ vnew_result = None

\* let v = Vertex::new(x, y, z)
call_Vertex_new ==
    /\ Running
    /\ vnew_result = None
    /\ vnew_result' = Some(Vertex_new(vnew_args[1], vnew_args[2], vnew_args[3]))
    /\ lastOp' = "Vertex::new"
    /\ lastArg' = Some(vnew_args)
    /\ UNCHANGED <<sceneVars, ctxVars, procVars, pre, calls, assigned,
                   overflow_checks, mainVars, vnew_args>>

VertexNext == call_Vertex_new

SpecVertex == InitVertex /\ [][VertexNext]_vars

---------------------------------------------------------------------------
(* Reading the record of the most recent operation                         *)

CallNames(cs) == { cs[i].call : i \in DOMAIN cs }

Builders == {"VertexBuffer::new", "IndexBuffer::new"}

\* The buffers an operation asked the backend to build, and those it got.
Attempted(cs) == CallNames(cs) \cap Builders

Built(cs) == { cs[i].call : i \in { j \in DOMAIN cs : cs[j].ok } } \cap Builders

\* The builders of the slots that are absent in the pair of slots p.
Absent(p) ==
    (IF p.vb = None THEN {"VertexBuffer::new"} ELSE {})
       \cup (IF p.ib = None THEN {"IndexBuffer::new"} ELSE {})

AllOk(cs) == \A i \in DOMAIN cs : cs[i].ok

IsFrameCall(c) == c.call \notin Builders

\* The calls of an operation that belong to the frame (scene.rs:112-125).
FrameCalls(cs) == SelectSeq(cs, IsFrameCall)

---------------------------------------------------------------------------
(* Claims                                                                  *)

\* C1: a draw asks the backend only for buffers that were absent when it
\* started, never for one that was present; a draw that returns has built
\* exactly the absent ones and leaves both present, so that a draw which
\* starts with both present (no set_vertices/set_indices since the last
\* draw) builds nothing.
C1_DrawBuildsExactlyAbsent ==
    lastOp = "draw" =>
        /\ Attempted(calls) \subseteq Absent(pre)
        /\ \A i, j \in DOMAIN calls :
              (i # j /\ calls[i].call \in Builders) => calls[i].call # calls[j].call
        /\ status = "running" =>
              /\ Built(calls) = Absent(pre)
              /\ vertex_buffer # None
              /\ index_buffer # None
              /\ pre.vb # None => vertex_buffer = pre.vb
              /\ pre.ib # None => index_buffer = pre.ib

\* A draw that found both buffers present and reused them.
C1_Witness ==
    /\ lastOp = "draw"
    /\ status = "running"
    /\ pre.vb # None
    /\ pre.ib # None
    /\ Attempted(calls) = {}
    /\ "Surface::draw" \in CallNames(calls)

\* C2: set_vertices(list) makes the vertex sequence list, set_indices(list)
\* makes the index sequence list; after either both cached slots are
\* absent and the process has not failed, whatever the list (empty, or
\* with indices outside the vertex sequence).
C2_SettersReplaceAndInvalidate ==
    /\ lastOp = "set_vertices" =>
          /\ vertices = lastArg[1]
          /\ vertex_buffer = None
          /\ index_buffer = None
          /\ status = "running"
          /\ panic_msg = None
    /\ lastOp = "set_indices" =>
          /\ indices = lastArg[1]
          /\ vertex_buffer = None
          /\ index_buffer = None
          /\ status = "running"
          /\ panic_msg = None

\* set_indices with an out-of-range index, called while both buffers were
\* present.
C2_Witness ==
    /\ lastOp = "set_indices"
    /\ lastArg = Some(<<0, 1, 7>>)
    /\ vertices = QuadVertices
    /\ pre.vb # None
    /\ pre.ib # None
    /\ vertex_buffer = None
    /\ index_buffer = None

\* C3: a cached slot goes from absent to present only in draw, from present
\* to absent only in set_vertices or set_indices, a present buffer is never
\* exchanged for another one (draw does not rebuild it), and the public
\* builders leave both slots alone.
C3_SlotTransitions ==
    [][ /\ (vertex_buffer = None /\ vertex_buffer' # None) => lastOp' = "draw"
        /\ (index_buffer = None /\ index_buffer' # None) => lastOp' = "draw"
        /\ (vertex_buffer # None /\ vertex_buffer' = None)
              => lastOp' \in {"set_vertices", "set_indices"}
        /\ (index_buffer # None /\ index_buffer' = None)
              => lastOp' \in {"set_vertices", "set_indices"}
        /\ (vertex_buffer # None /\ vertex_buffer' # None)
              => /\ vertex_buffer' = vertex_buffer
                 /\ lastOp' = "draw" => "VertexBuffer::new" \notin CallNames(calls')
        /\ (index_buffer # None /\ index_buffer' # None)
              => /\ index_buffer' = index_buffer
                 /\ lastOp' = "draw" => "IndexBuffer::new" \notin CallNames(calls')
        /\ lastOp' \in {"get_vertex_buffer", "get_index_buffer"}
              => UNCHANGED <<vertex_buffer, index_buffer>>
      ]_vars

\* The public get_vertex_buffer built a buffer while the cached slot was
\* absent, and the slot is still absent.
C3_Witness ==
    /\ lastOp = "get_vertex_buffer"
    /\ status = "running"
    /\ "VertexBuffer::new" \in Built(calls)
    /\ vertices = QuadVertices
    /\ vertex_buffer = None

MaterialOrUniformOps == {"set_materials", "add_material", "set_uniforms"}

\* C4: set_materials, add_material and set_uniforms change neither the
\* vertex sequence, the index sequence nor a cached slot; a draw that comes
\* right after one of them, the buffers being present, builds nothing.
C4_MaterialsUniformsKeepCache ==
    [][ /\ lastOp' \in MaterialOrUniformOps
              => UNCHANGED <<vertices, indices, vertex_buffer, index_buffer>>
        /\ ( /\ lastOp \in MaterialOrUniformOps
             /\ pre.vb # None
             /\ pre.ib # None
             /\ lastOp' = "draw" )
              => Attempted(calls') = {}
      ]_vars

\* set_uniforms was called while both buffers were present, and both are
\* still present.
C4_Witness ==
    /\ lastOp = "set_uniforms"
    /\ pre.vb # None
    /\ pre.ib # None
    /\ vertex_buffer # None
    /\ index_buffer # None

\* C5: every add_material call succeeds and inserts at a key that no
\* earlier add_material call used and that is greater than all of them, the
\* first one at 1, however many calls there are.
C5_KeysStrictlyIncreasing ==
    [][ lastOp' = "add_material" =>
           /\ status' = "running"
           /\ id_counter' \notin assigned
           /\ \A k \in assigned : k < id_counter'
           /\ assigned = {} => id_counter' = 1
      ]_vars

MissingIndices == "Missing indices"

MissingUniforms == "Cannot draw before specifing uniforms"

\* C6 as stated: a draw with an empty index sequence always fails with
\* "Missing indices" and acquires no frame.
C6_AlwaysMissingIndices ==
    (lastOp = "draw" /\ indices = <<>>) =>
        /\ status = "panicked"
        /\ panic_msg = Some(MissingIndices)
        /\ FrameCalls(calls) = <<>>

\* C6: a draw with an empty index sequence fails without acquiring a frame
\* and without asking the backend for an index buffer; it fails with
\* "Missing indices" unless the backend rejected the vertex buffer, which
\* is built first and then is the failure reported.
C6_EmptyIndicesDrawFails ==
    (lastOp = "draw" /\ indices = <<>>) =>
        /\ status = "panicked"
        /\ FrameCalls(calls) = <<>>
        /\ "IndexBuffer::new" \notin CallNames(calls)
        /\ AllOk(calls) => panic_msg = Some(MissingIndices)
        /\ ~AllOk(calls) =>
              /\ CallNames(calls) = {"VertexBuffer::new"}
              /\ panic_msg = Some("unwrap: VertexBuffer::new")

\* A draw with no indices that built the vertex buffer and then stopped
\* on the missing indices.
C6_Witness ==
    /\ lastOp = "draw"
    /\ indices = <<>>
    /\ Built(calls) = {"VertexBuffer::new"}
    /\ panic_msg = Some(MissingIndices)

\* C7 as stated: a draw on a scene without uniforms always fails with the
\* missing-uniforms message, whatever the geometry (here even granted a
\* backend that rejects nothing).
C7_AlwaysMissingUniforms ==
    (lastOp = "draw" /\ uniforms = None /\ AllOk(calls)) =>
        /\ status = "panicked"
        /\ panic_msg = Some(MissingUniforms)
        /\ "Surface::draw" \notin CallNames(calls)

\* C7: a draw on a scene without uniforms fails, acquires no frame and
\* submits no draw call; the failure is the missing-uniforms one exactly
\* when the index sequence is not empty and the backend accepted every
\* buffer it was asked for (the buffers are dealt with first).
C7_NoUniformsDrawFails ==
    (lastOp = "draw" /\ uniforms = None) =>
        /\ status = "panicked"
        /\ FrameCalls(calls) = <<>>
        /\ (indices # <<>> /\ AllOk(calls)) <=> panic_msg = Some(MissingUniforms)

\* A draw that built both buffers of the quad and stopped on the missing
\* uniforms.
C7_Witness ==
    /\ lastOp = "draw"
    /\ uniforms = None
    /\ vertices = QuadVertices
    /\ indices = QuadIndices
    /\ Built(calls) = Builders
    /\ panic_msg = Some(MissingUniforms)

\* C8: every step starts in a process that is still running; a step in
\* which a backend call is rejected or a panic is raised ends in the
\* terminated state, the rejected call being the last one made (nothing is
\* retried, nothing follows it).
C8_FailureIsFatal ==
    [][ /\ status = "running"
        /\ (~AllOk(calls') \/ panic_msg' # None) => status' = "panicked"
        /\ status' = "panicked" => panic_msg' # None
        /\ \A i \in DOMAIN calls' : ~calls'[i].ok => i = Len(calls')
      ]_vars

\* The process ended by a rejected frame finish, after a successful draw
\* call.
C8_Witness ==
    /\ status = "panicked"
    /\ lastOp = "draw"
    /\ panic_msg = Some("unwrap: Frame::finish")
    /\ Len(calls) > 0
    /\ ~calls[Len(calls)].ok

\* The frame of the quad: acquisition, clear to (0,0,1,1), one indexed
\* triangle-list draw call of the 6 indices over the 4 vertices, finish.
QuadFrame ==
    << Call("Display::draw", <<>>, TRUE),
       Call("Surface::clear_color", <<0, 0, 10, 10>>, TRUE),
       Call("Surface::draw",
            << [data |-> QuadVertices],
               [primitive |-> "TrianglesList", data |-> QuadIndices],
               "program", UColorWhite, "Default" >>,
            TRUE),
       Call("Frame::finish", <<>>, TRUE) >>

\* C9: with the quad's vertices and indices and u_color = [1,1,1] set, a
\* draw that the backend does not reject succeeds and its frame is exactly
\* QuadFrame; the first such draw builds the two buffers, every further one
\* builds nothing and draws the same frame with the same buffers.
C9_QuadDraw ==
    ( /\ lastOp = "draw"
      /\ vertices = QuadVertices
      /\ indices = QuadIndices
      /\ uniforms = Some(UColorWhite)
      /\ AllOk(calls) ) =>
        /\ status = "running"
        /\ Len(FrameCalls(calls)) = Len(QuadFrame)
        /\ FrameCalls(calls) = QuadFrame
        /\ Built(calls) = Absent(pre)
        /\ vertex_buffer = Some([data |-> QuadVertices])
        /\ index_buffer = Some([primitive |-> "TrianglesList",
                                data |-> QuadIndices])

\* A further draw of the quad, with both buffers reused.
C9_Witness ==
    /\ lastOp = "draw"
    /\ status = "running"
    /\ vertices = QuadVertices
    /\ indices = QuadIndices
    /\ uniforms = Some(UColorWhite)
    /\ pre.vb # None
    /\ pre.ib # None
    /\ FrameCalls(calls) = calls
    /\ Len(calls) = Len(QuadFrame)

\* The number of draw calls submitted by the calls cs.
DrawCalls(cs) == Cardinality({ i \in DOMAIN cs : cs[i].call = "Surface::draw" })

\* C10 as stated: the closure draws once for each MainEventsCleared and for
\* no other event, CloseRequested asks for Exit, any other event leaves
\* Wait in place, and no draw happens once CloseRequested was handled.
C10_NoDrawAfterClose ==
    [][ nEvents' # nEvents =>
           /\ lastOp' = "draw" <=> ev' = Some("MainEventsCleared")
           /\ (lastOp' = "draw" /\ status' = "running") => DrawCalls(calls') = 1
           /\ ev' = Some("CloseRequested") =>
                 (control_flow' = "Exit" /\ calls' = <<>>)
           /\ (ev' # Some("CloseRequested") /\ control_flow = "Wait") =>
                 control_flow' = "Wait"
           /\ control_flow = "Exit" => lastOp' # "draw"
      ]_vars

\* C10: the closure draws once for each MainEventsCleared and for no other
\* event, CloseRequested asks for Exit without drawing, any other event
\* leaves Wait in place, Exit once asked for stays, and nothing happens
\* after the loop has stopped; a MainEventsCleared that the loop hands
\* over between the close request and its stop is drawn like any other.
C10_DrawPerMainEventsCleared ==
    [][ /\ status = "running"
        /\ nEvents' # nEvents =>
              /\ lastOp' = "draw" <=> ev' = Some("MainEventsCleared")
              /\ (lastOp' = "draw" /\ status' = "running") => DrawCalls(calls') = 1
              /\ ev' = Some("CloseRequested") =>
                    (control_flow' = "Exit" /\ calls' = <<>>)
              /\ (ev' # Some("CloseRequested") /\ control_flow = "Wait") =>
                    control_flow' = "Wait"
              /\ control_flow = "Exit" => control_flow' = "Exit"
      ]_vars

\* A frame drawn for a MainEventsCleared that came after the close request.
C10_Witness ==
    /\ control_flow = "Exit"
    /\ ev = Some("MainEventsCleared")
    /\ lastOp = "draw"
    /\ status = "running"
    /\ DrawCalls(calls) = 1

\* C11: set_materials(mapping) makes the table mapping, whatever it held,
\* cannot fail and changes neither the counter, the geometry, the uniforms
\* nor a cached slot; an add_material that follows it inserts at the counter
\* value plus one, the key it would have used without the set_materials.
C11_SetMaterialsReplacesTable ==
    [][ /\ lastOp' = "set_materials" =>
              /\ materials' = lastArg'[1]
              /\ status' = "running"
              /\ UNCHANGED <<id_counter, vertices, indices, uniforms,
                             vertex_buffer, index_buffer>>
        /\ (lastOp = "set_materials" /\ lastOp' = "add_material") =>
              /\ id_counter' = id_counter + 1
              /\ id_counter' \in DOMAIN materials'
      ]_vars

\* set_materials called after two add_material calls and a draw: the table
\* is the one passed, key 2 is gone, the counter is still 2 and the buffers
\* are still there.
C11_Witness ==
    /\ lastOp = "set_materials"
    /\ materials = (1 :> MatB)
    /\ id_counter = 2
    /\ assigned = {1, 2}
    /\ vertex_buffer # None
    /\ index_buffer # None

\* C12: for every (x, y, z) the vertex Vertex::new returns has pos (x, y, z),
\* uv (0.0, 1.0) and material_id 0.
C12_VertexNew ==
    vnew_result # None =>
        /\ vnew_result[1].pos = vnew_args
        /\ vnew_result[1].uv = <<0, 10>>
        /\ vnew_result[1].material_id = 0
        /\ DOMAIN vnew_result[1] = {"pos", "uv", "material_id"}

\* Vertex::new(-0.5, 0.5, 0.0) has returned.
C12_Witness ==
    /\ lastOp = "Vertex::new"
    /\ vnew_args = <<-5, 5, 0>>
    /\ vnew_result # None
    /\ vnew_result[1].pos = <<-5, 5, 0>>

\* The place of a backend call in the order of the steps of draw.
StepOf(name) ==
    CASE name = "VertexBuffer::new"    -> 1
      [] name = "IndexBuffer::new"     -> 2
      [] name = "Display::draw"        -> 4
      [] name = "Surface::clear_color" -> 5
      [] name = "Surface::draw"        -> 6
      [] name = "Frame::finish"        -> 7
      [] OTHER                         -> 0

CallSeq(cs) == [i \in DOMAIN cs |-> cs[i].call]

\* C13: the calls of a draw come in the order vertex buffer, index buffer,
\* frame acquisition, clear, draw call, finish, the uniforms being looked
\* at after the buffers and before the frame.  A frame is acquired only
\* with both buffers present and uniforms set; an acquired frame is cleared
\* and drawn once, and finished unless the draw call was rejected; a draw
\* that stops on the missing uniforms has both buffers; with no indices and
\* no uniforms the failure is never the missing-uniforms one: it is the
\* missing-indices one once the vertex buffer step has passed.
C13_DrawStepOrder ==
    lastOp = "draw" =>
        /\ \A i, j \in DOMAIN calls :
              i < j => (0 < StepOf(calls[i].call)
                        /\ StepOf(calls[i].call) < StepOf(calls[j].call))
        /\ \A i \in DOMAIN calls : ~calls[i].ok => i = Len(calls)
        /\ "Display::draw" \in CallNames(calls) =>
              /\ vertex_buffer # None
              /\ index_buffer # None
              /\ uniforms # None
              /\ CallSeq(FrameCalls(calls)) \in
                    { <<"Display::draw", "Surface::clear_color", "Surface::draw">>,
                      <<"Display::draw", "Surface::clear_color", "Surface::draw",
                        "Frame::finish">> }
              /\ "Frame::finish" \notin CallNames(calls) => status = "panicked"
        /\ status = "running" =>
              CallSeq(FrameCalls(calls)) =
                 <<"Display::draw", "Surface::clear_color", "Surface::draw",
                   "Frame::finish">>
        /\ panic_msg = Some(MissingUniforms) =>
              /\ vertex_buffer # None
              /\ index_buffer # None
              /\ FrameCalls(calls) = <<>>
        /\ (indices = <<>> /\ uniforms = None) =>
              /\ panic_msg # Some(MissingUniforms)
              /\ AllOk(calls) => panic_msg = Some(MissingIndices)

\* A draw that went through all the steps: both buffers built, then the
\* frame acquired, cleared, drawn and finished.
C13_Witness ==
    /\ lastOp = "draw"
    /\ status = "running"
    /\ CallSeq(calls) = <<"VertexBuffer::new", "IndexBuffer::new",
                          "Display::draw", "Surface::clear_color",
                          "Surface::draw", "Frame::finish">>

\* The uniform bundles bound by the draw calls among cs.
BoundUniforms(cs) ==
    { cs[i].args[4] : i \in { j \in DOMAIN cs : cs[j].call = "Surface::draw" } }

\* The content of an Option, as a set.
Content(opt) == { opt[i] : i \in DOMAIN opt }

\* C14: the scene's bundle is the argument of the most recent set_uniforms
\* and nothing else writes it; the draw call of every draw binds that
\* bundle, buffers reused or not; a draw right after a set_uniforms binds
\* the bundle just passed and, the buffers being present, builds nothing.
C14_UniformsBypassCache ==
    [][ /\ lastOp' = "set_uniforms" => uniforms' = lastArg'
        /\ uniforms' # uniforms => lastOp' = "set_uniforms"
        /\ (lastOp' = "draw" /\ status' = "running") =>
              (uniforms # None /\ BoundUniforms(calls') = Content(uniforms))
        /\ lastOp' = "draw" => BoundUniforms(calls') \subseteq Content(uniforms)
        /\ (lastOp = "set_uniforms" /\ lastOp' = "draw" /\ status' = "running") =>
              /\ BoundUniforms(calls') = Content(lastArg)
              /\ (pre.vb # None /\ pre.ib # None) => Attempted(calls') = {}
      ]_vars

\* A draw that reused both buffers and bound u_color = [1, 0, 0], set right
\* before it.
C14_Witness ==
    /\ lastOp = "draw"
    /\ status = "running"
    /\ pre.vb # None
    /\ pre.ib # None
    /\ calls = FrameCalls(calls)
    /\ uniforms = Some(UColorRed)
    /\ BoundUniforms(calls) = { UColorRed }

\* The vertex and index buffers bound by the draw calls among cs.
BoundBuffers(cs) ==
    { <<cs[i].args[1], cs[i].args[2]>> :
         i \in { j \in DOMAIN cs : cs[j].call = "Surface::draw" } }

\* C15: in every state a cached vertex buffer holds the current vertex
\* sequence and a cached index buffer the current index sequence, as a
\* triangle list; the buffers a draw call binds are those of the current
\* geometry.
C15_CacheCoherent ==
    /\ vertex_buffer # None => vertex_buffer[1] = [data |-> vertices]
    /\ index_buffer # None =>
          index_buffer[1] = [primitive |-> "TrianglesList", data |-> indices]
    /\ lastOp = "draw" =>
          BoundBuffers(calls) \subseteq
             { << [data |-> vertices],
                  [primitive |-> "TrianglesList", data |-> indices] >> }

\* A draw that built the buffers of a one-vertex geometry and bound them
\* in its draw call.
C15_Witness ==
    /\ lastOp = "draw"
    /\ status = "running"
    /\ pre.vb = None
    /\ vertices = << Vertex_new(0, 0, 0) >>
    /\ indices = <<0, 1, 7>>
    /\ vertex_buffer = Some([data |-> << Vertex_new(0, 0, 0) >>])
    /\ BoundBuffers(calls) # {}

\* C16 as stated: every add_material call adds one entry to the table and
\* leaves every key that was in it mapped to the same material.
C16_NeverReplaces ==
    [][ lastOp' = "add_material" =>
           /\ Cardinality(DOMAIN materials') = Cardinality(DOMAIN materials) + 1
           /\ \A k \in DOMAIN materials :
                 k \in DOMAIN materials' /\ materials'[k] = materials[k]
      ]_vars

\* C16: an add_material call that returns has put its material at the key
\* id_counter + 1 (in u8 arithmetic) and left every other key as it was;
\* the table has one entry more when that key was not in it, and as many
\* as before, the entry of that key being replaced, when it was (a key a
\* set_materials table brought in, or a key met again after the counter
\* wrapped).  A call that panics leaves table and counter as they were.
C16_InsertsAtCounter ==
    [][ lastOp' = "add_material" =>
           IF status' = "panicked"
           THEN UNCHANGED <<materials, id_counter>>
           ELSE /\ id_counter' = (id_counter + 1) % (U8Max + 1)
                /\ DOMAIN materials' = DOMAIN materials \cup {id_counter'}
                /\ materials'[id_counter'] = lastArg'[1]
                /\ \A k \in DOMAIN materials \ {id_counter'} :
                      materials'[k] = materials[k]
                /\ Cardinality(DOMAIN materials') =
                      Cardinality(DOMAIN materials)
                         + (IF id_counter' \in DOMAIN materials THEN 0 ELSE 1)
      ]_vars

\* The second add_material after set_materials({2: B, 9: A}): it replaced
\* the entry of key 2 and the table still has three entries.
C16_Witness ==
    /\ lastOp = "add_material"
    /\ id_counter = 2
    /\ DOMAIN materials = {1, 2, 9}
    /\ materials[2] = MatA
    /\ lastArg = Some(MatA)

\* C17: in every state a cached index buffer goes with a non-empty index
\* sequence; the index buffer of every draw call has at least one index;
\* a draw with an empty index sequence finds the index slot absent (an
\* empty set_indices has dropped any older buffer), acquires no frame and
\* fails, with "Missing indices" once the vertex buffer step has passed.
C17_IndexBufferNonEmpty ==
    /\ index_buffer # None =>
          (Len(indices) > 0 /\ Len(index_buffer[1].data) > 0)
    /\ \A b \in BoundBuffers(calls) : Len(b[2].data) > 0
    /\ (lastOp = "draw" /\ indices = <<>>) =>
          /\ pre.ib = None
          /\ index_buffer = None
          /\ status = "panicked"
          /\ FrameCalls(calls) = <<>>
          /\ AllOk(calls) => panic_msg = Some(MissingIndices)

\* set_indices with an empty list, called while an index buffer was cached:
\* the buffer is gone.
C17_Witness ==
    /\ lastOp = "set_indices"
    /\ lastArg = Some(<<>>)
    /\ indices = <<>>
    /\ pre.ib # None
    /\ index_buffer = None

\* The calls a draw makes for its frame when nothing is rejected, written
\* from the geometry, the program and the bundle alone.
FrameOf(vs, is, prog, bundle) ==
    << Call("Display::draw", <<>>, TRUE),
       Call("Surface::clear_color", <<0, 0, 10, 10>>, TRUE),
       Call("Surface::draw",
            << [data |-> vs], [primitive |-> "TrianglesList", data |-> is],
               prog, bundle, "Default" >>,
            TRUE),
       Call("Frame::finish", <<>>, TRUE) >>

\* C18: a draw changes neither the vertex sequence, the index sequence,
\* the material table, the counter nor the bundle; a draw that returns
\* leaves both buffers present, and its frame is the one given by the
\* geometry, the program and the bundle, whatever the material table and
\* the counter are.
C18_DrawFrameCondition ==
    [][ lastOp' = "draw" =>
           /\ UNCHANGED <<vertices, indices, materials, id_counter, uniforms,
                          display, program, assigned>>
           /\ status' = "running" =>
                 /\ vertex_buffer' # None
                 /\ index_buffer' # None
                 /\ uniforms # None
                 /\ FrameCalls(calls') =
                       FrameOf(vertices, indices, program[1], uniforms[1])
      ]_vars

\* A draw that returned on a scene whose table was filled by add_material
\* and set_materials.
C18_Witness ==
    /\ lastOp = "draw"
    /\ status = "running"
    /\ id_counter = 2
    /\ DOMAIN materials = {1, 2, 9}
    /\ vertex_buffer # None
    /\ index_buffer # None
    /\ Len(FrameCalls(calls)) = 4

=============================================================================
